---- MODULE Spec2Model ----
(***************************************************************************)
(* The search console of frontend-acorag: the App component (session      *)
(* state, handleSearch, handleRefine, the recent-search ledger) and the   *)
(* SearchBar component that submits to it.                                 *)
(*                                                                         *)
(* A JavaScript string is a sequence of lexemes.  A lexeme is one          *)
(* whitespace character " ", one colon ":", one double quote, one brace,   *)
(* one comma, or a run of other characters holding none of these.          *)
(* String.trim, String.split(':') and JSON.parse are computed on that      *)
(* sequence.  undefined and null are the reserved one-lexeme sequences     *)
(* Undefined and Null, which no input string contains.                     *)
(***************************************************************************)
EXTENDS Integers, Sequences, FiniteSets, TLC

\* ------------------------------------------------------------------ bounds
\* backend calls one explored session may issue
MaxCalls == 2

\* ------------------------------------------------------- program constants
TopK == 12
Probes == 10
MaxRecent == 5

\* ----------------------------------------------------------------- values
Undefined == <<"<undefined>">>
Null == <<"<null>">>
WS == " "
COLON == ":"
QUOTE == "\""
LBRACE == "{"
RBRACE == "}"
COMMA == ","

EmptyStr == <<>>
EmptyMap == [k \in {} |-> EmptyStr]

\* an optional argument of a call
None == [some |-> FALSE, val |-> EmptyMap]
Some(m) == [some |-> TRUE, val |-> m]

SortKeys == {<<"relevance">>, <<"date">>, <<"type">>}
FallbackMessage == <<"Error", WS, "al", WS, "realizar", WS, "la", WS, "busqueda">>

\* ------------------------------------------------------- string functions
RECURSIVE TrimStart(_)
TrimStart(s) ==
  IF s # <<>> /\ Head(s) = WS THEN TrimStart(Tail(s)) ELSE s

RECURSIVE TrimEnd(_)
TrimEnd(s) ==
  IF s # <<>> /\ s[Len(s)] = WS THEN TrimEnd(SubSeq(s, 1, Len(s) - 1)) ELSE s

\* String.prototype.trim
Trim(s) == TrimEnd(TrimStart(s))

\* JavaScript truthiness of a string
Truthy(s) == s # Undefined /\ s # Null /\ s # EmptyStr

\* index of the first colon of s at or after i, or 0
RECURSIVE IndexOfColon(_, _)
IndexOfColon(s, i) ==
  IF i > Len(s) THEN 0
  ELSE IF s[i] = COLON THEN i
  ELSE IndexOfColon(s, i + 1)

\* String.prototype.split(':'): every colon separates two pieces
RECURSIVE Split(_)
Split(s) ==
  LET i == IndexOfColon(s, 1)
  IN IF i = 0 THEN <<s>>
     ELSE <<SubSeq(s, 1, i - 1)>> \o Split(SubSeq(s, i + 1, Len(s)))

\* the type local without the split: the whole command
RefineTypeUnsplit(refinement) == refinement

\* const [type, value] = refinement.split(':')
RefineType(refinement) == Split(refinement)[1]

RefineValue(refinement) ==
  IF Len(Split(refinement)) >= 2 THEN Split(refinement)[2] ELSE Undefined

\* ------------------------------------------------------------- JSON.parse
\* s without the whitespace that stands outside string literals
RECURSIVE StripWS(_, _)
StripWS(s, inStr) ==
  IF s = <<>> THEN <<>>
  ELSE IF Head(s) = QUOTE THEN <<QUOTE>> \o StripWS(Tail(s), ~inStr)
  ELSE IF Head(s) = WS /\ ~inStr THEN StripWS(Tail(s), inStr)
  ELSE <<Head(s)>> \o StripWS(Tail(s), inStr)

\* index of the first double quote of t at or after i, or 0
RECURSIVE IndexOfQuote(_, _)
IndexOfQuote(t, i) ==
  IF i > Len(t) THEN 0
  ELSE IF t[i] = QUOTE THEN i
  ELSE IndexOfQuote(t, i + 1)

\* a string literal starting at t[i]: its content and the index after it
ParseString(t, i) ==
  IF i > Len(t) \/ t[i] # QUOTE THEN [ok |-> FALSE, str |-> EmptyStr, next |-> 0]
  ELSE LET j == IndexOfQuote(t, i + 1)
       IN IF j = 0 THEN [ok |-> FALSE, str |-> EmptyStr, next |-> 0]
          ELSE [ok |-> TRUE, str |-> SubSeq(t, i + 1, j - 1), next |-> j + 1]

JSONFail == [ok |-> FALSE, obj |-> EmptyMap]

\* the members of an object from t[i] on, the opening brace or a comma
\* having been read; a later member of the same name replaces the earlier
RECURSIVE ParseMembers(_, _, _)
ParseMembers(t, i, acc) ==
  LET k == ParseString(t, i)
  IN IF ~k.ok \/ k.next > Len(t) \/ t[k.next] # COLON THEN JSONFail
     ELSE LET v == ParseString(t, k.next + 1)
          IN IF ~v.ok \/ v.next > Len(t) THEN JSONFail
             ELSE LET acc2 == [x \in DOMAIN acc \cup {k.str} |->
                                 IF x = k.str THEN v.str ELSE acc[x]]
                  IN IF t[v.next] = RBRACE
                       THEN IF v.next = Len(t) THEN [ok |-> TRUE, obj |-> acc2]
                            ELSE JSONFail
                     ELSE IF t[v.next] = COMMA
                       THEN ParseMembers(t, v.next + 1, acc2)
                     ELSE JSONFail

\* JSON.parse(value) for the texts the refinement commands carry: null and
\* objects whose members are strings; ok = FALSE is the SyntaxError it throws.
\* JSON.parse(undefined) parses the text "undefined" and throws.
JSONParse(value) ==
  LET t == StripWS(value, FALSE)
  IN IF value = Undefined THEN JSONFail
     ELSE IF t = <<"null">> THEN [ok |-> TRUE, obj |-> EmptyMap]
     ELSE IF t = <<LBRACE, RBRACE>> THEN [ok |-> TRUE, obj |-> EmptyMap]
     ELSE IF t # <<>> /\ Head(t) = LBRACE THEN ParseMembers(t, 2, EmptyMap)
     ELSE JSONFail

\* { ...a, ...b }
Spread(a, b) ==
  [k \in DOMAIN a \cup DOMAIN b |-> IF k \in DOMAIN b THEN b[k] ELSE a[k]]

\* ------------------------------------------------------------ the ledger
\* prev.filter(q => q !== query)
RECURSIVE Without(_, _)
Without(prev, query) ==
  IF prev = <<>> THEN <<>>
  ELSE IF Head(prev) = query THEN Without(Tail(prev), query)
  ELSE <<Head(prev)>> \o Without(Tail(prev), query)

\* the ledger update without its filter: the new entry is put in front of
\* whatever was there
UpdatedKeepingDuplicate(prev, query) ==
  LET all == <<query>> \o prev
  IN SubSeq(all, 1, IF Len(all) < MaxRecent THEN Len(all) ELSE MaxRecent)

\* [query, ...prev.filter(q => q !== query)].slice(0, 5)
Updated(prev, query) ==
  LET all == <<query>> \o Without(prev, query)
  IN SubSeq(all, 1, IF Len(all) < MaxRecent THEN Len(all) ELSE MaxRecent)

\* ----------------------------------------------------------------- inputs
\* texts typed into the search field
TypedTexts == {EmptyStr, <<WS, WS>>, <<"a">>}

\* texts typed into the project field
Projects == {EmptyStr, <<"p1">>}

\* the choices of the two filter selects
FilterChoices ==
  {[key |-> <<"category">>, val |-> <<"Planos">>],
   [key |-> <<"dateRange">>, val |-> <<"week">>]}

\* `sort:${e.target.value}` of the sort select
SortCommand(v) == <<"sort", COLON>> \o v

CmdSortDate == SortCommand(<<"date">>)
CmdSortType == SortCommand(<<"type">>)
CmdSortRelevance == SortCommand(<<"relevance">>)
CmdSortBogus == <<"sort", COLON, "bogus">>
CmdFilterEmpty == <<"filter", COLON, LBRACE, RBRACE>>
CmdFilterCategory ==
  <<"filter", COLON, LBRACE, QUOTE, "category", QUOTE, COLON,
    QUOTE, "Planos", QUOTE, RBRACE>>
CmdFilterBroken == <<"filter", COLON, LBRACE, QUOTE, "category">>
CmdLoadMore == <<"load", COLON, "more">>
CmdHelp == <<"help">>
CmdBlank == <<WS, WS>>

\* strings handed to handleRefine
Commands ==
  {CmdSortDate, CmdSortType, CmdSortRelevance, CmdSortBogus,
   CmdFilterEmpty, CmdFilterCategory,
   CmdFilterBroken, CmdLoadMore, CmdHelp, CmdBlank}

\* what the persistent store holds when the session starts
StoredAbsent == [tag |-> "absent", items |-> <<>>]
StoredMalformed == [tag |-> "malformed", items |-> <<>>]
StoredList(l) == [tag |-> "list", items |-> l]
InitialStores ==
  {StoredAbsent, StoredMalformed,
   StoredList(<<<<"h1">>, <<"h2">>, <<"h3">>, CmdHelp, <<"h5">>>>)}

\* result sets the backend answers with (rows named by document id)
ResultSets == {<<>>, <<1, 2>>}

Modes == {"search", "chat"}

\* values the backend call rejects with
Rejections ==
  {[isError |-> TRUE, message |-> <<"Network", WS, "Error">>],
   [isError |-> TRUE, message |-> EmptyStr],
   [isError |-> FALSE, message |-> Undefined]}

\* One explored session draws its inputs from one of these worlds: the
\* first is rich in query texts, stored ledgers and backend answers, the
\* second in filters, projects, modes and refinement commands.
QueryWorld ==
  [texts |-> TypedTexts, projects |-> {EmptyStr}, choices |-> {},
   commands |-> {CmdHelp, CmdBlank, CmdLoadMore}, modes |-> {"search"},
   stores |-> InitialStores, results |-> ResultSets, rejections |-> Rejections]

FilterWorld ==
  [texts |-> {<<"a">>}, projects |-> Projects, choices |-> FilterChoices,
   commands |-> Commands \ {CmdBlank, CmdLoadMore}, modes |-> Modes,
   stores |-> {StoredAbsent}, results |-> {<<1, 2>>},
   rejections |-> {[isError |-> FALSE, message |-> Undefined]}]

Worlds == {QueryWorld, FilterWorld}

\* ------------------------------------------------------------------ state
VARIABLES
  world,           \* the inputs this session draws from (never changes)
  phase,           \* "init" before the mount effect, "ready", or "crashed"
  mode,            \* App: mode
  rows,            \* App: rows
  loading,         \* App: loading
  error,           \* App: error (Null or a message)
  searchState,     \* App: searchState
  recentSearches,  \* App: recentSearches
  storage,         \* localStorage item 'recentSearches'
  inflight,        \* search() calls awaiting their answer
  nextId,          \* number of the next search() call
  q,               \* SearchBar: q
  project,         \* SearchBar: project
  filters,         \* SearchBar: filters
  maxDone,         \* highest call number answered so far
  isTyping,        \* SearchBar: isTyping
  showSuggestions, \* SearchBar: showSuggestions
  timers,          \* SearchBar: setTimeout callbacks not yet run
  suggestions,     \* SearchBar: suggestions
  sortedRows,      \* ResultsList: sortedRows
  groupedResults,  \* ResultsList: Object.entries(groupedResults)
  lastOp           \* the handler or continuation that ran last: its name,
                   \* its argument (the text submitted, the command, the
                   \* query of the answered call), the number of the
                   \* answered call, whether a later call was answered
                   \* before it, the data it stored (for handleRefine its
                   \* locals type and value), the message it stored

appVars == <<rows, loading, error, searchState, recentSearches, storage>>
barVars == <<q, project, filters>>
viewVars == <<isTyping, showSuggestions, timers, suggestions, sortedRows,
              groupedResults>>
vars == <<world, phase, mode, rows, loading, error, searchState, recentSearches,
          storage, inflight, nextId, q, project, filters, maxDone, isTyping,
          showSuggestions, timers, suggestions, sortedRows, groupedResults,
          lastOp>>

Op(name, arg, id, late, data, err) ==
  [op |-> name, arg |-> arg, id |-> id, late |-> late, data |-> data, err |-> err]

Init ==
  /\ world \in Worlds
  /\ phase = "init"
  /\ mode = "search"
  /\ rows = <<>>
  /\ loading = FALSE
  /\ error = Null
  /\ searchState = [query |-> EmptyStr, projectId |-> Undefined,
                    filters |-> EmptyMap, sortBy |-> <<"relevance">>]
  /\ recentSearches = <<>>
  /\ storage \in world.stores
  /\ inflight = {}
  /\ nextId = 1
  /\ q = EmptyStr
  /\ project = EmptyStr
  /\ filters = EmptyMap
  /\ maxDone = 0
  /\ isTyping = FALSE
  /\ showSuggestions = FALSE
  /\ timers = 0
  /\ suggestions = <<>>
  /\ sortedRows = <<>>
  /\ groupedResults = <<>>
  /\ lastOp = Op("none", EmptyStr, 0, FALSE, <<>>, Null)

\* ------------------------------------------------------------ App actions
\* useEffect(..., []): the recent searches are read from localStorage once,
\* after the first render.  JSON.parse throws on a malformed item; an error
\* thrown in an effect, with no error boundary, unmounts the tree.
LoadRecentSearches ==
  /\ phase = "init"
  /\ CASE storage.tag = "absent" ->
            /\ phase' = "ready"
            /\ UNCHANGED recentSearches
       [] storage.tag = "list" ->
            /\ phase' = "ready"
            /\ recentSearches' = storage.items
       [] OTHER ->
            /\ phase' = "crashed"
            /\ UNCHANGED recentSearches
  /\ UNCHANGED viewVars
  /\ lastOp' = Op("loadRecentSearches", EmptyStr, 0, FALSE, <<>>, Null)
  /\ UNCHANGED <<world, mode, rows, loading, error, searchState, storage,
                 inflight, nextId, q, project, filters, maxDone>>

\* the request search() is called with
Request(id, query, projectId) ==
  [id |-> id, query |-> query, project_id |-> projectId,
   top_k |-> TopK, probes |-> Probes]

\* filters: filters || prev.filters
NextFilters(prev, given) == IF given.some THEN given.val ELSE prev

\* handleSearch up to its await: loading and error are set, searchState is
\* updated and search() is called
HandleSearch(query, projectId, given) ==
  /\ nextId <= MaxCalls
  /\ loading' = TRUE
  /\ error' = Null
  /\ searchState' = [searchState EXCEPT
                       !.query = query,
                       !.projectId = projectId,
                       !.filters = NextFilters(@, given)]
  /\ inflight' = inflight \cup {Request(nextId, query, projectId)}
  /\ nextId' = nextId + 1

\* handleSearch after its await, the call having resolved with data:
\* setRows, updateRecentSearches (which also saves), finally setLoading(false)
SearchResolved(c, data) ==
  /\ phase = "ready"
  /\ c \in inflight
  /\ inflight' = inflight \ {c}
  /\ rows' = data
  /\ recentSearches' = Updated(recentSearches, c.query)
  /\ storage' = StoredList(Updated(recentSearches, c.query))
  /\ loading' = FALSE
  /\ maxDone' = IF c.id > maxDone THEN c.id ELSE maxDone
  /\ UNCHANGED viewVars
  /\ lastOp' = Op("resolved", c.query, c.id, maxDone > c.id, data, Null)
  /\ UNCHANGED <<world, phase, mode, error, searchState, nextId, q, project, filters>>

\* err instanceof Error ? err.message : 'Error al realizar la búsqueda'
ErrorMessage(err) == IF err.isError THEN err.message ELSE FallbackMessage

\* handleSearch after its await, the call having rejected with err:
\* setError, setRows([]), finally setLoading(false)
SearchRejected(c, err) ==
  /\ phase = "ready"
  /\ c \in inflight
  /\ inflight' = inflight \ {c}
  /\ error' = ErrorMessage(err)
  /\ rows' = <<>>
  /\ loading' = FALSE
  /\ maxDone' = IF c.id > maxDone THEN c.id ELSE maxDone
  /\ UNCHANGED viewVars
  /\ lastOp' = Op("rejected", c.query, c.id, maxDone > c.id, <<>>, ErrorMessage(err))
  /\ UNCHANGED <<world, phase, mode, searchState, recentSearches, storage, nextId,
                 q, project, filters>>

\* handleRefine.  The updater of the 'filter' case calls JSON.parse while
\* React renders; what it throws is not caught and, with no error boundary,
\* unmounts the tree.
HandleRefine(refinement) ==
  /\ phase = "ready"
  /\ UNCHANGED viewVars
  /\ lastOp' = Op("handleRefine", refinement, 0, FALSE,
                  <<RefineType(refinement), RefineValue(refinement)>>, Null)
  /\ CASE RefineType(refinement) = <<"sort">> ->
            /\ searchState' = [searchState EXCEPT !.sortBy = RefineValue(refinement)]
            /\ UNCHANGED <<phase, loading, error, inflight, nextId>>
       [] RefineType(refinement) = <<"filter">> ->
            IF JSONParse(RefineValue(refinement)).ok
              THEN /\ searchState' =
                        [searchState EXCEPT !.filters =
                           Spread(@, JSONParse(RefineValue(refinement)).obj)]
                   /\ UNCHANGED <<phase, loading, error, inflight, nextId>>
              ELSE /\ phase' = "crashed"
                   /\ UNCHANGED <<searchState, loading, error, inflight, nextId>>
       [] OTHER ->
            /\ HandleSearch(refinement, Undefined, None)
            /\ UNCHANGED phase
  /\ UNCHANGED <<world, mode, rows, recentSearches, storage, q, project,
                 filters, maxDone>>

\* the timer callback of handleModeChange: setMode(newMode).  SearchBar is
\* rendered in search mode only, so leaving it discards q, project and
\* filters, and coming back mounts a SearchBar in its initial state.
SetMode(newMode) ==
  /\ phase = "ready"
  /\ mode' = newMode
  /\ IF newMode # mode
       THEN q' = EmptyStr /\ project' = EmptyStr /\ filters' = EmptyMap
       ELSE UNCHANGED barVars
  /\ UNCHANGED viewVars
  /\ lastOp' = Op("input", EmptyStr, 0, FALSE, <<>>, Null)
  /\ UNCHANGED <<world, phase, rows, loading, error, searchState,
                 recentSearches, storage, inflight, nextId, maxDone>>

\* ------------------------------------------------------ SearchBar actions
\* Spec follows what SearchBar hands to App: q, project and filters.  The
\* typing indicator and the suggestions of the same component, on which no
\* App state depends, are followed in BarSpec below.
\* onChange of the search field: setQ(e.target.value)
SetQ(text) ==
  /\ phase = "ready" /\ mode = "search"
  /\ q' = text
  /\ UNCHANGED viewVars
  /\ lastOp' = Op("input", EmptyStr, 0, FALSE, <<>>, Null)
  /\ UNCHANGED <<world, phase, mode, rows, loading, error, searchState, recentSearches,
                 storage, inflight, nextId, project, filters, maxDone>>

\* onChange of the project field: setProject(e.target.value)
SetProject(text) ==
  /\ phase = "ready" /\ mode = "search"
  /\ project' = text
  /\ UNCHANGED viewVars
  /\ lastOp' = Op("input", EmptyStr, 0, FALSE, <<>>, Null)
  /\ UNCHANGED <<world, phase, mode, rows, loading, error, searchState, recentSearches,
                 storage, inflight, nextId, q, filters, maxDone>>

\* onChange of a filter select: setFilters(prev => ({ ...prev, key: value }))
SetFilters(choice) ==
  /\ phase = "ready" /\ mode = "search"
  /\ filters' = Spread(filters, [k \in {choice.key} |-> choice.val])
  /\ UNCHANGED viewVars
  /\ lastOp' = Op("input", EmptyStr, 0, FALSE, <<>>, Null)
  /\ UNCHANGED <<world, phase, mode, rows, loading, error, searchState, recentSearches,
                 storage, inflight, nextId, q, project, maxDone>>

\* the guard of handleSubmit without its trim: if (q)
SubmitAcceptedUntrimmed(text) == Truthy(text)

\* if (q.trim())
SubmitAccepted(text) == Truthy(Trim(text))

\* handleSubmit: onSubmit(q, project || undefined, filters) unless q is blank
HandleSubmit ==
  /\ phase = "ready" /\ mode = "search"
  /\ UNCHANGED viewVars
  /\ lastOp' = Op("handleSubmit", q, 0, FALSE, <<>>, Null)
  /\ IF SubmitAccepted(q)
       THEN HandleSearch(q, IF Truthy(project) THEN project ELSE Undefined,
                         Some(filters))
       ELSE UNCHANGED <<loading, error, searchState, inflight, nextId>>
  /\ UNCHANGED <<world, phase, mode, rows, recentSearches, storage, q, project,
                 filters, maxDone>>

\* ------------------------------------------------------------------- spec
Next ==
  \/ LoadRecentSearches
  \/ \E text \in world.texts : SetQ(text)
  \/ \E text \in world.projects : SetProject(text)
  \/ \E choice \in world.choices : SetFilters(choice)
  \/ HandleSubmit
  \/ \E refinement \in world.commands : HandleRefine(refinement)
  \/ \E c \in inflight, data \in world.results : SearchResolved(c, data)
  \/ \E c \in inflight, err \in world.rejections : SearchRejected(c, err)
  \/ \E newMode \in world.modes : SetMode(newMode)

Spec == Init /\ [][Next]_vars

\* every call search() has started is answered in the end
FairSpec ==
  /\ Spec
  /\ WF_vars(\E c \in inflight :
               \/ \E data \in world.results : SearchResolved(c, data)
               \/ \E err \in world.rejections : SearchRejected(c, err))

\* ------------------------------------------- SearchBar: typing, suggestions
\* In BarSpec a string is the sequence of its characters.

\* timers one explored SearchBar may have pending at once
MaxTimers == 3

\* DOCUMENT_CATEGORIES, handed to SearchBar as categories
DocumentCategories ==
  <<<<"P", "l", "a", "n", "o", "s">>,
    <<"E", "s", "p", "e", "c", "i", "f", "i", "c", "a", "c", "i", "o", "n", "e", "s">>,
    <<"C", "o", "n", "t", "r", "a", "t", "o", "s">>,
    <<"I", "n", "f", "o", "r", "m", "e", "s">>,
    <<"P", "r", "e", "s", "u", "p", "u", "e", "s", "t", "o", "s">>>>

\* lists handed to SearchBar as recentSearches
RecentProps ==
  {<<>>,
   <<<<"p", "l", "a", "n">>>>,
   <<<<"p", "l", "a", "n">>, <<"b", "a", "r">>, <<"b", "a", "z">>, <<"p", "l", "o", "t">>>>,
   <<<<"f", "o", "o">>, <<"b", "a", "r">>, <<"b", "a", "z">>, <<"q", "u", "x">>, <<"p", "l", "a", "n">>>>}

\* texts the search field takes
KeyTexts == {<<>>, <<"a", "n">>, <<"P", "L">>, <<" ">>, <<"x">>, <<"B", "A">>}

LowerOf ==
  [A |-> "a", B |-> "b", C |-> "c", D |-> "d", E |-> "e", F |-> "f",
   G |-> "g", H |-> "h", I |-> "i", J |-> "j", K |-> "k", L |-> "l",
   M |-> "m", N |-> "n", O |-> "o", P |-> "p", Q |-> "q", R |-> "r",
   S |-> "s", T |-> "t", U |-> "u", V |-> "v", W |-> "w", X |-> "x",
   Y |-> "y", Z |-> "z"]

\* String.prototype.toLowerCase
ToLowerCase(str) ==
  [i \in 1..Len(str) |-> IF str[i] \in DOMAIN LowerOf THEN LowerOf[str[i]]
                         ELSE str[i]]

\* whether part begins str at index i
RECURSIVE MatchesAt(_, _, _)
MatchesAt(str, part, i) ==
  IF part = <<>> THEN TRUE
  ELSE IF i > Len(str) THEN FALSE
  ELSE str[i] = Head(part) /\ MatchesAt(str, Tail(part), i + 1)

\* the test of a prefix match: part begins str
StartsWith(str, part) == MatchesAt(str, part, 1)

RECURSIVE IncludesFrom(_, _, _)
IncludesFrom(str, part, i) ==
  IF i + Len(part) - 1 > Len(str) THEN FALSE
  ELSE MatchesAt(str, part, i) \/ IncludesFrom(str, part, i + 1)

\* String.prototype.includes
Includes(str, part) ==
  IncludesFrom(str, part, 1)

\* Array.prototype.slice(0, n)
Slice(seq, n) == SubSeq(seq, 1, IF Len(seq) < n THEN Len(seq) ELSE n)

Suggestion(text, type, icon) == [text |-> text, type |-> type, icon |-> icon]

\* allSuggestions of generateSuggestions
AllSuggestions(recent, categories) ==
  [i \in 1..Len(Slice(recent, 3)) |-> Suggestion(recent[i], "recent", "clock")]
  \o [i \in 1..Len(categories) |-> Suggestion(categories[i], "category", "folder")]

RECURSIVE FilterIncludes(_, _)
FilterIncludes(all, text) ==
  IF all = <<>> THEN <<>>
  ELSE (IF Includes(ToLowerCase(Head(all).text), ToLowerCase(text))
          THEN <<Head(all)>> ELSE <<>>)
       \o FilterIncludes(Tail(all), text)

\* generateSuggestions: what it hands to setSuggestions
GenerateSuggestions(text, recent, categories) ==
  IF text # EmptyStr THEN FilterIncludes(AllSuggestions(recent, categories), text)
  ELSE AllSuggestions(recent, categories)

barFrame == <<world, mode, rows, loading, error, searchState, storage, inflight,
              nextId, project, filters, maxDone, sortedRows, groupedResults,
              lastOp>>

BarInit ==
  /\ world = QueryWorld
  /\ phase = "init"
  /\ mode = "search"
  /\ rows = <<>>
  /\ loading = FALSE
  /\ error = Null
  /\ searchState = [query |-> EmptyStr, projectId |-> Undefined,
                    filters |-> EmptyMap, sortBy |-> <<"relevance">>]
  /\ recentSearches = <<>>
  /\ storage = StoredAbsent
  /\ inflight = {}
  /\ nextId = 1
  /\ q = EmptyStr
  /\ project = EmptyStr
  /\ filters = EmptyMap
  /\ maxDone = 0
  /\ isTyping = FALSE
  /\ showSuggestions = FALSE
  /\ timers = 0
  /\ suggestions = <<>>
  /\ sortedRows = <<>>
  /\ groupedResults = <<>>
  /\ lastOp = Op("none", EmptyStr, 0, FALSE, <<>>, Null)

\* useEffect(() => generateSuggestions(), [q, generateSuggestions]) after
\* the first render
BarMounted ==
  /\ phase = "init"
  /\ phase' = "ready"
  /\ suggestions' = GenerateSuggestions(q, recentSearches, DocumentCategories)
  /\ UNCHANGED <<recentSearches, q, isTyping, showSuggestions, timers>>
  /\ UNCHANGED barFrame

\* handleSearch of SearchBar (onChange of the search field): setQ,
\* setIsTyping(true), setShowSuggestions(true) and a 500 ms timer; the
\* function it returns is dropped by the caller, so no timer is ever
\* cleared.  The effect on q then regenerates the suggestions.
KeyStroke(text) ==
  /\ phase = "ready"
  /\ timers < MaxTimers
  /\ q' = text
  /\ isTyping' = TRUE
  /\ showSuggestions' = TRUE
  /\ timers' = timers + 1
  /\ suggestions' = GenerateSuggestions(text, recentSearches, DocumentCategories)
  /\ UNCHANGED <<phase, recentSearches>>
  /\ UNCHANGED barFrame

\* the callback of a timer, 500 ms after the keystroke that set it:
\* setIsTyping(false).  All delays being equal, timers run in the order
\* they were set, so the timer of the latest keystroke is pending exactly
\* while timers > 0.
TypingTimerFires ==
  /\ phase = "ready"
  /\ timers > 0
  /\ timers' = timers - 1
  /\ isTyping' = FALSE
  /\ UNCHANGED <<phase, recentSearches, q, showSuggestions, suggestions>>
  /\ UNCHANGED barFrame

\* App renders SearchBar with another recentSearches: the effect
\* regenerates the suggestions
RecentSearchesChanged(recent) ==
  /\ phase = "ready"
  /\ recentSearches' = recent
  /\ suggestions' = GenerateSuggestions(q, recent, DocumentCategories)
  /\ UNCHANGED <<phase, q, isTyping, showSuggestions, timers>>
  /\ UNCHANGED barFrame

BarNext ==
  \/ BarMounted
  \/ \E text \in KeyTexts : KeyStroke(text)
  \/ TypingTimerFires
  \/ \E recent \in RecentProps : RecentSearchesChanged(recent)

BarSpec == BarInit /\ [][BarNext]_vars

\* ------------------------------------------ SearchBar: picking a suggestion
\* onClick of a suggestion of the panel, which is rendered while
\* showSuggestions && suggestions.length > 0: setQ(suggestion.text), then
\* handleSubmit().  setQ only schedules the next render; the handleSubmit
\* called is the one of the render the panel was drawn in, and the q it
\* tests and submits is the q of that render.  project is '' and filters {}
\* here.  The effect on q then regenerates the suggestions.
SuggestionClicked(index) ==
  /\ phase = "ready"
  /\ showSuggestions /\ Len(suggestions) > 0
  /\ index \in 1..Len(suggestions)
  /\ q' = suggestions[index].text
  /\ suggestions' = GenerateSuggestions(suggestions[index].text, recentSearches,
                                        DocumentCategories)
  /\ IF SubmitAccepted(q)
       THEN /\ HandleSearch(q, IF Truthy(project) THEN project ELSE Undefined,
                            Some(filters))
            /\ showSuggestions' = FALSE
            /\ lastOp' = Op("suggestionClick", suggestions[index].text, nextId,
                            FALSE, <<>>, Null)
       ELSE /\ UNCHANGED <<loading, error, searchState, inflight, nextId,
                           showSuggestions>>
            /\ lastOp' = Op("suggestionClick", suggestions[index].text, 0,
                            FALSE, <<>>, Null)
  /\ UNCHANGED <<world, phase, mode, rows, recentSearches, storage, project,
                 filters, maxDone, isTyping, timers, sortedRows, groupedResults>>

\* texts the search field takes before a suggestion is picked: emptied,
\* and a text two categories contain
PickTexts == {<<>>, <<"a", "n">>}

PickNext ==
  \/ BarMounted
  \/ \E text \in PickTexts : KeyStroke(text)
  \/ TypingTimerFires
  \/ \E index \in 1..Len(DocumentCategories) : SuggestionClicked(index)

PickSpec == BarInit /\ [][PickNext]_vars

\* ------------------------------------------------- ResultsList: organizing
\* rows one explored result list may hold
MaxRows == 3

\* getTime() of an Invalid Date, and of a valid one (in days)
NaN == [nan |-> TRUE, v |-> 0]
Num(n) == [nan |-> FALSE, v |-> n]

\* the rows the backend may return, by document_id; score in hundredths;
\* date_modified "undefined" is an absent field
RowTable ==
  [id \in 1..5 |->
     CASE id = 1 -> [score |-> 90, doc_type |-> "b", date_modified |-> "2024-03-01"]
       [] id = 2 -> [score |-> 30, doc_type |-> "a", date_modified |-> "undefined"]
       [] id = 3 -> [score |-> 60, doc_type |-> "b", date_modified |-> "2024-01-01"]
       [] id = 4 -> [score |-> 60, doc_type |-> "", date_modified |-> "n/a"]
       [] id = 5 -> [score |-> 30, doc_type |-> "7", date_modified |-> "2024-03-01"]]

RowIds == DOMAIN RowTable

\* new Date(text).getTime() for the texts of RowTable
DateGetTime(text) ==
  CASE text = "2024-03-01" -> Num(19783)
    [] text = "2024-01-01" -> Num(19723)
    [] OTHER -> NaN

\* new Date(row.date_modified || '').getTime()
GetTime(id) ==
  LET d == RowTable[id].date_modified
  IN IF d = "undefined" \/ d = "" THEN DateGetTime("") ELSE DateGetTime(d)

\* the place of a doc_type of RowTable in the collation localeCompare uses
CollationRank(text) ==
  CASE text = "" -> 0
    [] text = "7" -> 1
    [] text = "a" -> 2
    [] text = "b" -> 3

\* a.localeCompare(b)
LocaleCompare(a, b) ==
  IF CollationRank(a) < CollationRank(b) THEN 0 - 1
  ELSE IF CollationRank(a) > CollationRank(b) THEN 1
  ELSE 0

\* the comparator handed to sort, for rows a and b; a NaN result counts as
\* 0 in Array.prototype.sort
Compare(sortBy, a, b) ==
  CASE sortBy = <<"date">> ->
         IF GetTime(b).nan \/ GetTime(a).nan THEN 0
         ELSE GetTime(b).v - GetTime(a).v
    [] sortBy = <<"type">> ->
         LocaleCompare(RowTable[a].doc_type, RowTable[b].doc_type)
    [] OTHER -> RowTable[b].score - RowTable[a].score

Sign(n) == IF n < 0 THEN 0 - 1 ELSE IF n > 0 THEN 1 ELSE 0

\* whether the comparator is a consistent comparator for these rows (a
\* strict weak order): Array.prototype.sort sorts stably when it is
ConsistentComparator(ids, sortBy) ==
  /\ \A a, b \in ids : Sign(Compare(sortBy, a, b)) = 0 - Sign(Compare(sortBy, b, a))
  /\ \A a, b, c \in ids :
       /\ (Compare(sortBy, a, b) = 0 /\ Compare(sortBy, b, c) = 0)
            => Compare(sortBy, a, c) = 0
       /\ (Compare(sortBy, a, b) < 0 /\ Compare(sortBy, b, c) <= 0)
            => Compare(sortBy, a, c) < 0
       /\ (Compare(sortBy, a, b) <= 0 /\ Compare(sortBy, b, c) < 0)
            => Compare(sortBy, a, c) < 0

\* x put before the first row that sorts strictly after it or equal to it,
\* scanning from the right: a sort that is not stable
RECURSIVE InsertRowBeforeEqual(_, _, _)
InsertRowBeforeEqual(sorted, x, sortBy) ==
  IF sorted = <<>> THEN <<x>>
  ELSE LET last == sorted[Len(sorted)]
       IN IF Compare(sortBy, last, x) >= 0
            THEN InsertRowBeforeEqual(SubSeq(sorted, 1, Len(sorted) - 1), x, sortBy)
                   \o <<last>>
          ELSE sorted \o <<x>>

\* x put after every row of sorted that does not sort strictly after it
RECURSIVE InsertRow(_, _, _)
InsertRow(sorted, x, sortBy) ==
  IF sorted = <<>> THEN <<x>>
  ELSE LET last == sorted[Len(sorted)]
       IN IF Compare(sortBy, last, x) > 0
            THEN InsertRow(SubSeq(sorted, 1, Len(sorted) - 1), x, sortBy)
                   \o <<last>>
          ELSE sorted \o <<x>>

\* the stable sort of rs
RECURSIVE StableSort(_, _)
StableSort(rs, sortBy) ==
  IF rs = <<>> THEN <<>>
  ELSE InsertRow(StableSort(SubSeq(rs, 1, Len(rs) - 1), sortBy), rs[Len(rs)], sortBy)

Range(seq) == {seq[i] : i \in 1..Len(seq)}

Rearrangements(rs) ==
  {[i \in 1..Len(rs) |-> rs[p[i]]] :
     p \in {f \in [1..Len(rs) -> 1..Len(rs)] : Range(f) = 1..Len(rs)}}

\* processedRows.sort(...): the stable sort when the comparator is
\* consistent, else an order the engine chooses
SortOutcomes(rs, sortBy) ==
  IF ConsistentComparator(Range(rs), sortBy) THEN {StableSort(rs, sortBy)}
  ELSE Rearrangements(rs)

\* row.doc_type || 'Otros'
GroupKey(id) ==
  IF RowTable[id].doc_type # "" THEN RowTable[id].doc_type ELSE "Otros"

\* the reduce of the effect: the groups in the order their keys were added
RECURSIVE GroupRows(_, _)
GroupRows(acc, rs) ==
  IF rs = <<>> THEN acc
  ELSE LET key == GroupKey(Head(rs))
       IN IF \E i \in 1..Len(acc) : acc[i].key = key
            THEN GroupRows([i \in 1..Len(acc) |->
                              IF acc[i].key = key
                                THEN [key |-> key, rows |-> acc[i].rows \o <<Head(rs)>>]
                                ELSE acc[i]],
                           Tail(rs))
          ELSE GroupRows(acc \o <<[key |-> key, rows |-> <<Head(rs)>>]>>, Tail(rs))

\* the keys of RowTable that are array indices, with their values
IsArrayIndex(key) == key = "7"

ArrayIndexValue(key) == 7

RECURSIVE InsertByIndex(_, _)
InsertByIndex(sorted, g) ==
  IF sorted = <<>> THEN <<g>>
  ELSE IF ArrayIndexValue(g.key) < ArrayIndexValue(Head(sorted).key)
    THEN <<g>> \o sorted
  ELSE <<Head(sorted)>> \o InsertByIndex(Tail(sorted), g)

RECURSIVE IndexEntries(_)
IndexEntries(groups) ==
  IF groups = <<>> THEN <<>>
  ELSE IF IsArrayIndex(groups[Len(groups)].key)
    THEN InsertByIndex(IndexEntries(SubSeq(groups, 1, Len(groups) - 1)),
                       groups[Len(groups)])
  ELSE IndexEntries(SubSeq(groups, 1, Len(groups) - 1))

NotIndex(g) == ~IsArrayIndex(g.key)

\* Object.entries(groupedResults): the properties whose keys are array
\* indices come first, in ascending numeric order, then the others in the
\* order they were added
ObjectEntries(groups) ==
  IndexEntries(groups) \o SelectSeq(groups, NotIndex)

RowSeqs ==
  {rs \in UNION {[1..n -> RowIds] : n \in 0..MaxRows} :
     \A i, j \in 1..Len(rs) : i # j => rs[i] # rs[j]}

orgFrame == <<world, mode, loading, error, recentSearches, storage, inflight,
              nextId, q, project, filters, maxDone, isTyping, showSuggestions,
              timers, suggestions, lastOp>>

OrgInit ==
  /\ world = QueryWorld
  /\ phase = "init"
  /\ mode = "search"
  /\ rows \in RowSeqs
  /\ loading = FALSE
  /\ error = Null
  /\ searchState \in {[query |-> <<"a">>, projectId |-> Undefined,
                       filters |-> EmptyMap, sortBy |-> k] : k \in SortKeys}
  /\ recentSearches = <<>>
  /\ storage = StoredAbsent
  /\ inflight = {}
  /\ nextId = 1
  /\ q = EmptyStr
  /\ project = EmptyStr
  /\ filters = EmptyMap
  /\ maxDone = 0
  /\ isTyping = FALSE
  /\ showSuggestions = FALSE
  /\ timers = 0
  /\ suggestions = <<>>
  /\ sortedRows = <<>>
  /\ groupedResults = <<>>
  /\ lastOp = Op("none", EmptyStr, 0, FALSE, <<>>, Null)

\* the effect of ResultsList on [rows, sortBy]: sort a copy of rows, group
\* it by document type, store both
OrganizeResults(rs, sortBy) ==
  \E processedRows \in SortOutcomes(rs, sortBy) :
     /\ sortedRows' = processedRows
     /\ groupedResults' = ObjectEntries(GroupRows(<<>>, processedRows))

\* the effect after the first render of ResultsList
ResultsRendered ==
  /\ phase = "init"
  /\ phase' = "ready"
  /\ OrganizeResults(rows, searchState.sortBy)
  /\ UNCHANGED <<rows, searchState>>
  /\ UNCHANGED orgFrame

\* ResultsList rendered with another sortBy: the effect runs again
SortByChanged(sortBy) ==
  /\ phase = "ready"
  /\ sortBy # searchState.sortBy
  /\ searchState' = [searchState EXCEPT !.sortBy = sortBy]
  /\ OrganizeResults(rows, sortBy)
  /\ UNCHANGED <<phase, rows>>
  /\ UNCHANGED orgFrame

OrgNext ==
  \/ ResultsRendered
  \/ \E sortBy \in SortKeys : SortByChanged(sortBy)

OrgSpec == OrgInit /\ [][OrgNext]_vars

\* ----------------------------------------------------------------- claims
Blank(text) == Trim(text) = EmptyStr

Occurrences(seq, x) == Cardinality({i \in 1..Len(seq) : seq[i] = x})

Contains(seq, x) == \E i \in 1..Len(seq) : seq[i] = x

\* C1: once every started backend call is answered, loading never stays
\* true: whenever loading is true it is false again later.
C1_SearchingIsCleared == loading ~> ~loading

\* C2: a handleSubmit whose text is empty or only whitespace starts no
\* backend call and leaves loading, error and rows (and all other App
\* state) as they were.
C2_BlankSubmitIsNoOp ==
  [][(lastOp'.op = "handleSubmit" /\ Blank(q))
       => UNCHANGED <<appVars, inflight, nextId>>]_vars

\* a whitespace-only text was submitted while a call was outstanding and
\* results were on display
C2_Witness ==
  /\ lastOp.op = "handleSubmit"
  /\ lastOp.arg = <<WS, WS>>
  /\ loading /\ inflight # {} /\ rows # <<>>

\* C3: no backend call is ever started whose query text is empty after
\* trimming.
C3_NoBlankQueryIssued == \A c \in inflight : ~Blank(c.query)

\* C4: when a backend call rejects, the session then holds a non-empty
\* error message, no rows, and loading false.
C4_RejectionStoresMessage ==
  [][lastOp'.op = "rejected"
       => /\ error' # Null /\ error' # EmptyStr
          /\ rows' = <<>>
          /\ loading' = FALSE]_vars

\* C5: when a backend call resolves, the ledger then holds the call's query
\* text exactly once, at position 0, holds at most 5 entries, and is no
\* longer than before if the text was already in it.
C5_LedgerAfterSuccess ==
  [][lastOp'.op = "resolved"
       => /\ recentSearches' # <<>>
          /\ recentSearches'[1] = lastOp'.arg
          /\ Occurrences(recentSearches', lastOp'.arg) = 1
          /\ Len(recentSearches') <= MaxRecent
          /\ (Contains(recentSearches, lastOp'.arg)
                => Len(recentSearches') <= Len(recentSearches))]_vars

\* a full ledger took a new text (dropping its last entry) and then a text
\* it already held (moving it to the front)
C5_Witness ==
  /\ lastOp.op = "resolved"
  /\ lastOp.arg = CmdHelp
  /\ recentSearches = <<CmdHelp, <<"a">>, <<"h1">>, <<"h2">>, <<"h3">>>>

\* C6: when the answer to a call arrives after the answer to a later call
\* and nothing is outstanding any more, rows, error and loading are those
\* that answer alone produces.
C6_LastWriterWins ==
  (lastOp.late /\ inflight = {})
    => /\ loading = FALSE
       /\ lastOp.op = "resolved" => (rows = lastOp.data /\ error = Null)
       /\ lastOp.op = "rejected" => (rows = <<>> /\ error = lastOp.err)

\* C7: an accepted handleSubmit shallow-merges the SearchBar's filters into
\* the session's filters: keys of the override take its values, the other
\* keys keep theirs.
C7_SubmitMergesFilters ==
  [][(lastOp'.op = "handleSubmit" /\ ~Blank(q))
       => searchState'.filters = Spread(searchState.filters, filters)]_vars

\* C8: handleRefine('filter:{"category":"Planos"}') sets category in the
\* session filters, keeps every other filter key, and starts no backend call.
C8_FilterCommandMerges ==
  [][(lastOp'.op = "handleRefine" /\ lastOp'.arg = CmdFilterCategory)
       => /\ phase' = "ready"
          /\ searchState'.filters =
               Spread(searchState.filters,
                      [k \in {<<"category">>} |-> <<"Planos">>])
          /\ UNCHANGED <<inflight, nextId>>]_vars

\* C9: handleRefine with malformed filter JSON or an unknown sort value
\* does not crash and changes nothing; sortBy stays one of relevance, date,
\* type after every handleRefine.
C9_ParseErrorsAreIgnored ==
  [][lastOp'.op = "handleRefine"
       => /\ searchState'.sortBy \in SortKeys
          /\ (lastOp'.arg \in {CmdFilterBroken, CmdSortBogus}
                => /\ phase' = "ready"
                   /\ UNCHANGED <<appVars, inflight, nextId>>)]_vars

\* the text of s before its first colon and the text after it
BeforeFirstColon(s) == SubSeq(s, 1, IndexOfColon(s, 1) - 1)

AfterFirstColon(s) == SubSeq(s, IndexOfColon(s, 1) + 1, Len(s))

\* C10: handleRefine splits its command at the first colon only: type is
\* the text before it and value is all of the text after it.
C10_SplitAtFirstColon ==
  (lastOp.op = "handleRefine" /\ IndexOfColon(lastOp.arg, 1) > 0)
    => lastOp.data = <<BeforeFirstColon(lastOp.arg), AfterFirstColon(lastOp.arg)>>

\* C11: handleRefine("sort:v"), v one of relevance, date, type, sets sortBy
\* to v, changes nothing else of the session and starts no backend call.
C11_SortChangesOnlySortBy ==
  [][\A v \in SortKeys :
       (lastOp'.op = "handleRefine" /\ lastOp'.arg = SortCommand(v))
         => /\ searchState' = [searchState EXCEPT !.sortBy = v]
            /\ UNCHANGED <<phase, rows, loading, error, recentSearches,
                           storage, inflight, nextId>>]_vars

\* the sort key was changed to type while a call was outstanding, filters
\* were set and results were on display
C11_Witness ==
  /\ lastOp.op = "handleRefine"
  /\ lastOp.arg = CmdSortType
  /\ searchState.sortBy = <<"type">>
  /\ searchState.filters # EmptyMap
  /\ loading /\ inflight # {} /\ rows # <<>>

\* C12: handleRefine(s), s of a kind other than sort, filter and load, does
\* what a submit of s with no project id and no filter override does: nothing
\* when s is blank, else loading is set, error cleared, query and projectId
\* replaced and one backend call for s started.
C12_FreeTextIsSubmit ==
  [][(/\ lastOp'.op = "handleRefine"
      /\ lastOp'.data[1] \notin {<<"sort">>, <<"filter">>, <<"load">>})
       => IF Blank(lastOp'.arg)
            THEN UNCHANGED <<appVars, inflight, nextId>>
            ELSE /\ loading' = TRUE
                 /\ error' = Null
                 /\ searchState' = [searchState EXCEPT
                                      !.query = lastOp'.arg,
                                      !.projectId = Undefined]
                 /\ inflight' = inflight \cup
                                  {Request(nextId, lastOp'.arg, Undefined)}
                 /\ UNCHANGED <<rows, recentSearches, storage>>]_vars

\* C13: "load:more" is never the query text of a backend call.
C13_LoadMoreIsNotAQuery == \A c \in inflight : c.query # CmdLoadMore

\* C14: the mount effect never fails: with no stored record, or one that
\* is not a well-formed list, the session is ready with an empty ledger.
C14_LoadNeverFails ==
  [][(lastOp'.op = "loadRecentSearches" /\ storage.tag # "list")
       => (phase' = "ready" /\ recentSearches' = <<>>)]_vars

\* C20: loading is true exactly when a backend call is outstanding.
C20_LoadingIffOutstanding == loading <=> (inflight # {})

\* C15: the typing indicator is a debounce: it stays set from a keystroke
\* until 500 ms have passed with no further keystroke, that is, for as
\* long as the timer of the latest keystroke is pending.
C15_TypingIsDebounced == timers > 0 => isTyping

\* the candidate pool: the first min(3, n) recent searches, then every
\* category
C19_Pool(recent) ==
  LET n == IF Len(recent) < 3 THEN Len(recent) ELSE 3
  IN [i \in 1..(n + Len(DocumentCategories)) |->
        IF i <= n THEN Suggestion(recent[i], "recent", "clock")
        ELSE Suggestion(DocumentCategories[i - n], "category", "folder")]

\* text holds part somewhere, letter case apart
C19_Holds(text, part) ==
  \E i \in 1..(Len(text) - Len(part) + 1) :
     \A j \in 1..Len(part) :
        ToLowerCase(text)[i + j - 1] = ToLowerCase(part)[j]

\* C19: the suggestions are the candidate pool, restricted when q is not
\* empty to the entries whose text holds q case-insensitively, in pool order.
C19_SuggestionsArePoolFiltered ==
  phase = "ready" =>
    LET pool == C19_Pool(recentSearches)
        Keep(sug) == C19_Holds(sug.text, q)
    IN suggestions = IF q = EmptyStr THEN pool ELSE SelectSeq(pool, Keep)

\* with four recent searches and "PL" typed, the suggestions are the recent
\* "plan" and the category "Planos": the fourth recent search, "plot", is
\* not in the pool
C19_Witness ==
  /\ phase = "ready"
  /\ q = <<"P", "L">>
  /\ Len(recentSearches) = 4
  /\ Len(suggestions) = 2
  /\ suggestions[1].type = "recent"
  /\ suggestions[2] = Suggestion(DocumentCategories[1], "category", "folder")

IsRearrangement(out, rs) ==
  /\ Len(out) = Len(rs)
  /\ \A id \in RowIds : Occurrences(out, id) = Occurrences(rs, id)

PositionIn(seq, x) == CHOOSE i \in 1..Len(seq) : seq[i] = x

\* the time a row sorts by: an absent or unparseable date is the oldest
C16_TimeOf(id) == IF GetTime(id).nan THEN 0 ELSE GetTime(id).v

\* C16: with sortBy = date the sorted rows are the rows in descending
\* date_modified order, absent and unparseable dates counting as the
\* oldest, so after every valid date.
C16_DateOrder ==
  (phase = "ready" /\ searchState.sortBy = <<"date">>)
    => /\ IsRearrangement(sortedRows, rows)
       /\ \A i, j \in 1..Len(sortedRows) :
            i < j => C16_TimeOf(sortedRows[i]) >= C16_TimeOf(sortedRows[j])

\* the key a row sorts by, larger first: the score for relevance, the
\* collation place of doc_type, negated, for type
C17_KeyOf(sortBy, id) ==
  IF sortBy = <<"type">> THEN 0 - CollationRank(RowTable[id].doc_type)
  ELSE RowTable[id].score

\* C17: with sortBy = relevance the sorted rows are the rows in descending
\* score order, with sortBy = type in ascending doc_type order; rows of
\* equal key keep the order they had in rows.
C17_ScoreAndTypeOrder ==
  (phase = "ready" /\ searchState.sortBy \in {<<"relevance">>, <<"type">>})
    => /\ IsRearrangement(sortedRows, rows)
       /\ \A i, j \in 1..Len(sortedRows) :
            i < j =>
              LET ki == C17_KeyOf(searchState.sortBy, sortedRows[i])
                  kj == C17_KeyOf(searchState.sortBy, sortedRows[j])
              IN /\ ki >= kj
                 /\ ki = kj => PositionIn(rows, sortedRows[i])
                                 < PositionIn(rows, sortedRows[j])

\* rows of scores 0.3, 0.6, 0.6 sorted by relevance: the two rows of score
\* 0.6 first, in the order they came
C17_Witness ==
  /\ phase = "ready"
  /\ searchState.sortBy = <<"relevance">>
  /\ rows = <<2, 4, 3>>
  /\ sortedRows = <<4, 3, 2>>

RECURSIVE C18_Flatten(_)
C18_Flatten(groups) ==
  IF groups = <<>> THEN <<>> ELSE Head(groups).rows \o C18_Flatten(Tail(groups))

\* C18: the groups partition the sorted rows by doc_type (absent types in
\* one catch-all group), appear in the order their keys are first seen in
\* the sorted rows, and keep the sorted order inside.
C18_GroupsInFirstSeenOrder ==
  phase = "ready" =>
    /\ IsRearrangement(C18_Flatten(groupedResults), sortedRows)
    /\ \A g, h \in 1..Len(groupedResults) :
         g # h => groupedResults[g].key # groupedResults[h].key
    /\ \A g \in 1..Len(groupedResults) :
         LET grp == groupedResults[g]
         IN /\ grp.rows # <<>>
            /\ \A i \in 1..Len(grp.rows) : GroupKey(grp.rows[i]) = grp.key
            /\ \A i, j \in 1..Len(grp.rows) :
                 i < j => PositionIn(sortedRows, grp.rows[i])
                            < PositionIn(sortedRows, grp.rows[j])
            /\ \A h \in 1..Len(groupedResults) :
                 g < h => PositionIn(sortedRows, grp.rows[1])
                            < PositionIn(sortedRows, groupedResults[h].rows[1])

\* C21: picking a suggestion of the panel submits a search whose query is
\* exactly the text of the suggestion picked, whatever the search field
\* held before, empty included: after the click a call started by it is
\* in flight with that text as its query.  (No call is answered in
\* PickSpec, so a call once started stays in inflight.)
C21_PickedSuggestionIsSubmitted ==
  lastOp.op = "suggestionClick"
    => \E c \in inflight : c.id = lastOp.id /\ c.query = lastOp.arg

====
